---- MODULE Spec2Model ----
(***************************************************************************)
(* A model of build_cv.py: the LaTeX log parser, the quality gate, the     *)
(* image cache check, the single-variant job (build_single_cv), cleanup    *)
(* and the `build` command in its --all (sequential / parallel) and        *)
(* single-language forms.                                                  *)
(*                                                                         *)
(* External commands (docker) and the toolchain's writes are inputs drawn  *)
(* with \E at the step that consults them.  A log file is a sequence of    *)
(* lines, each line one of the kinds the parser's regular expressions      *)
(* tell apart; a match is recorded by the index of its line.               *)
(***************************************************************************)
EXTENDS Integers, Sequences, FiniteSets, TLC

VARIABLES
  cfg,         \* the options of this invocation of `build` (and CI_MODE)
  pc,          \* position of the main thread inside `build`
  job,         \* per variant: position and return value of build_single_cv
  dir,         \* per variant: the directory cv-<lang> and its files
  dockerfile,  \* Dockerfile.cv exists in the current directory
  outs,        \* files outside the variant directories (moved artifacts)
  results,     \* the dict `results` of build (lang -> success)
  stats_dict,  \* the dict `stats_dict` of build (lang -> stats or None)
  writes,      \* history: how many times results[lang] was assigned
  exit_code,   \* process exit status once pc is "exit" or "crashed"
  todo,        \* sequential mode: the variants the for loop has yet to build
  pending,     \* parallel mode: the futures as_completed has yet to yield
  call         \* function-level harness: the call made and what it returned

vars == <<cfg, pc, job, dir, dockerfile, outs, results, stats_dict, writes, exit_code,
          todo, pending, call>>

(***************************************************************************)
(* Bounds                                                                  *)
(***************************************************************************)
\* longest log the toolchain writes in the job and orchestrator runs
MaxLogLines == 1
\* longest log handed to the quality gate in the function-level runs
MaxGateLogLines == 2

\* calls of parse_latex_log made in a row on one directory
MaxParseCalls == 3

(***************************************************************************)
(* Variants and paths                                                      *)
(***************************************************************************)
Langs == {"en", "fr"}

\* the iteration order of `for lang in ["en", "fr"]`
LangOrder == <<"en", "fr">>

\* str(get_cv_path(lang) / "resume.pdf")
resume_pdf(lang) == IF lang = "en" THEN "cv-en/resume.pdf" ELSE "cv-fr/resume.pdf"

\* f"cv-{language}.pdf"
root_pdf(lang) == IF lang = "en" THEN "cv-en.pdf" ELSE "cv-fr.pdf"

\* The values of --output that are drawn: "" stands for None (not given),
\* "out.pdf" ends in .pdf, "out" does not contain ".pdf".
Outputs == {"", "out.pdf", "out"}

\* output.replace(".pdf", f"-{language}.pdf") on the drawn values
replace_pdf(output, lang) ==
  IF output = "out.pdf"
    THEN (IF lang = "en" THEN "out-en.pdf" ELSE "out-fr.pdf")
    ELSE output

\* every path outside the variant directories an artifact can be moved to
OutPaths == {"cv-en.pdf", "cv-fr.pdf", "out-en.pdf", "out-fr.pdf", "out"}

\* lang_output of build_single_cv
lang_output(lang, move_to_root, output) ==
  IF move_to_root THEN root_pdf(lang)
  ELSE IF output = "" THEN resume_pdf(lang)
  ELSE replace_pdf(output, lang)

\* lines 779-783 and 803-807: output_path of a row of the build summary
summary_output_path(lang, move_to_root) ==
  IF move_to_root THEN root_pdf(lang) ELSE resume_pdf(lang)

\* lines 926-932: final_output of the success message of a single build
final_output(language, move_to_root, output) ==
  IF move_to_root THEN root_pdf(language)
  ELSE IF output = "" THEN resume_pdf(language)
  ELSE output

(***************************************************************************)
(* Log files and the parser                                                *)
(***************************************************************************)
\* One kind per regular expression of parse_latex_log, and "text" for a line
\* none of them matches:
\*   err    "! <message>"                       fatal  "Fatal error occurred..."
\*   warn   "LaTeX Warning: <message>"          over   "Overfull \hbox (..pt too wide) in .. at lines .."
\*   under  "Underfull \hbox (badness ..) .."   pages  "Output written on resume.pdf (1 page)"
\* (a line "Output written on resume.pdf (1 page, 5 bytes)." is of kind "text":
\* pages_pattern wants ")" right after "page" or "pages")
LineKinds == {"text", "err", "fatal", "warn", "over", "under", "pages"}

LogsUpTo(n) == UNION {[1..k -> LineKinds] : k \in 0..n}

\* "pages_huge" is a line "Output written on resume.pdf (<d> pages)" whose
\* page count <d> has more digits than int() converts (4300 from Python 3.11
\* on): pages_pattern matches it and int(pages_match.group(1)) raises
\* ValueError.  Nothing but the parser tells it from a line of kind "text":
\* the page count it leaves is 0 and no caller reads more than the record.
ParserLineKinds == LineKinds \cup {"pages_huge"}

ParserLogsUpTo(n) == UNION {[1..k -> ParserLineKinds] : k \in 0..n}

\* LaTeXLogStats; `some` is FALSE for Python's None
LaTeXLogStats(errors, warnings, overfull_boxes, underfull_boxes, pages, has_fatal_error) ==
  [some |-> TRUE, errors |-> errors, warnings |-> warnings,
   overfull_boxes |-> overfull_boxes, underfull_boxes |-> underfull_boxes,
   pages |-> pages, has_fatal_error |-> has_fatal_error]

None == [some |-> FALSE, errors |-> <<>>, warnings |-> <<>>,
         overfull_boxes |-> <<>>, underfull_boxes |-> <<>>,
         pages |-> 0, has_fatal_error |-> FALSE]

\* pattern.finditer(content): the matches in order of appearance
RECURSIVE finditer(_, _, _)
finditer(lines, kind, i) ==
  IF i > Len(lines) THEN <<>>
  ELSE (IF lines[i] = kind THEN <<i>> ELSE <<>>) \o finditer(lines, kind, i + 1)

search_mut_any_line(lines, kind) == lines # <<>>

\* pattern.search(content) is not None
search(lines, kind) == \E i \in 1..Len(lines) : lines[i] = kind

\* line 123: pages_pattern.search(content), the first line the pattern
\* matches, "" for None
pages_match(lines) ==
  LET m == {i \in 1..Len(lines) : lines[i] \in {"pages", "pages_huge"}}
  IN  IF m = {} THEN "" ELSE lines[CHOOSE i \in m : \A k \in m : i <= k]

\* line 125: int(pages_match.group(1)) raises ValueError, which line 127
\* catches after the lists and the fatal-error flag are filled
int_raises(lines) == pages_match(lines) = "pages_huge"

parse_latex_log(log_exists, lines) ==
  IF ~log_exists
    THEN LaTeXLogStats(<<>>, <<>>, <<>>, <<>>, 0, FALSE)
    ELSE LaTeXLogStats(finditer(lines, "err", 1),
                       finditer(lines, "warn", 1),
                       finditer(lines, "over", 1),
                       finditer(lines, "under", 1),
                       IF search(lines, "pages") /\ ~int_raises(lines) THEN 1 ELSE 0,
                       search(lines, "fatal"))

(***************************************************************************)
(* Directories                                                             *)
(***************************************************************************)
FileNames == {"resume.tex", "resume.pdf", "resume.log", "resume.aux", "resume.out", "notes.txt"}

\* the suffix a glob pattern "*<ext>" is matched against
Suffix(name) ==
  CASE name = "resume.tex" -> ".tex"
    [] name = "resume.pdf" -> ".pdf"
    [] name = "resume.log" -> ".log"
    [] name = "resume.aux" -> ".aux"
    [] name = "resume.out" -> ".out"
    [] OTHER -> ".txt"

\* A directory: whether it exists, the names in it, the size of resume.pdf
\* (0, or 1 for any positive size) and the lines of resume.log.
Dir(exists, files, pdf_size, log_lines) ==
  [exists |-> exists, files |-> files,
   pdf_size |-> IF "resume.pdf" \in files THEN pdf_size ELSE 0,
   log_lines |-> IF "resume.log" \in files THEN log_lines ELSE <<>>]

NoDir == Dir(FALSE, {}, 0, <<>>)

\* what the toolchain leaves in the mounted directory: resume.pdf ("none",
\* "empty" or "full"), resume.log (written or not, and its lines) and
\* auxiliary files
ToolOutput(pdf, log_exists, log_lines, aux) ==
  [pdf |-> pdf, log_exists |-> log_exists, log_lines |-> log_lines, aux |-> aux]

\* the directory after the container has written `out` into it; a file the
\* container does not write stays as it was
Written(d, out) ==
  Dir(d.exists,
      d.files
        \cup (IF out.pdf = "none" THEN {} ELSE {"resume.pdf"})
        \cup (IF out.log_exists THEN {"resume.log"} ELSE {})
        \cup out.aux,
      IF out.pdf = "none" THEN d.pdf_size ELSE IF out.pdf = "full" THEN 1 ELSE 0,
      IF out.log_exists THEN out.log_lines ELSE d.log_lines)

(***************************************************************************)
(* check_latex_quality                                                     *)
(***************************************************************************)
total_warnings_mut_no_underfull(stats) ==
  Len(stats.warnings) + Len(stats.overfull_boxes)

\* lines 347-351
total_warnings(stats) ==
  Len(stats.warnings) + Len(stats.overfull_boxes) + Len(stats.underfull_boxes)

\* Line 388 evaluates `stats.overfull_boxes and verbose`; check_latex_quality
\* has no parameter, local or global named verbose, so the evaluation of
\* `verbose` raises NameError.  It is reached in the Rich (non-CI) branch when
\* there is at least one warning and the overfull list is non-empty.
quality_report_raises(stats, show_warnings, ci) ==
  /\ show_warnings \/ total_warnings(stats) > 0
  /\ ~ci
  /\ total_warnings(stats) > 0
  /\ stats.overfull_boxes # <<>>

\* line 343
has_errors(stats) == stats.has_fatal_error \/ stats.errors # <<>>

\* The result of a call: raised (an exception left the function), or the
\* returned pair (ok, stats).
check_latex_quality(d, fail_on_warnings, show_warnings, ci) ==
  LET stats == parse_latex_log("resume.log" \in d.files, d.log_lines)
  IN  IF has_errors(stats)
        THEN [raised |-> FALSE, ok |-> FALSE, stats |-> stats]
      ELSE IF quality_report_raises(stats, show_warnings, ci)
        THEN [raised |-> TRUE, ok |-> FALSE, stats |-> None]
      ELSE IF fail_on_warnings /\ total_warnings(stats) > 0
        THEN [raised |-> FALSE, ok |-> FALSE, stats |-> stats]
      ELSE [raised |-> FALSE, ok |-> TRUE, stats |-> stats]

(***************************************************************************)
(* cleanup                                                                 *)
(***************************************************************************)
aux_extensions_mut_with_pdf ==
  <<".aux", ".log", ".out", ".bbl", ".blg", ".fdb_latexmk", ".fls", ".pdf">>

\* line 548
aux_extensions == <<".aux", ".log", ".out", ".bbl", ".blg", ".fdb_latexmk", ".fls">>

\* the files cv_path.glob(f"*{ext}") yields for some ext of the list
aux_files(d) ==
  {f \in d.files : \E i \in 1..Len(aux_extensions) : Suffix(f) = aux_extensions[i]}

\* position of a file's extension in the list: the order of the outer loop
ext_index(f) == CHOOSE i \in 1..Len(aux_extensions) : Suffix(f) = aux_extensions[i]

\* cleanup(lang) on directory d.  `failing` is the file whose unlink raises
\* OSError ("" when every unlink succeeds): the files before it in loop
\* order are gone, the exception leaves cleanup.
cleanup(d, failing) ==
  LET removed == IF failing \in aux_files(d)
                   THEN {f \in aux_files(d) : ext_index(f) < ext_index(failing)}
                   ELSE aux_files(d)
  IN  [raised |-> failing \in aux_files(d),
       dir |-> Dir(d.exists, d.files \ removed, d.pdf_size, d.log_lines)]

(***************************************************************************)
(* build_image                                                             *)
(***************************************************************************)
\* outcomes of subprocess.run(["docker", "images", "-q", tag], check=True):
\* output non-empty, output empty, CalledProcessError (non-zero exit), or
\* another exception (OSError when the process cannot be started)
QueryOutcomes == {"found", "absent", "called_process_error", "oserror"}

\* outcomes of a subprocess.run(..., check=False, timeout=...): exit status
\* zero, exit status non-zero, TimeoutExpired, another exception
RunOutcomes == {"zero", "nonzero", "timeout", "oserror"}

on_build_timeout_mut_uncaught == "raise"

\* lines 306-308: except subprocess.TimeoutExpired: ... return False
on_build_timeout == "false"

build_image_mut_always_true(dockerfile_exists, cv_exists, rebuild, query, built) == "true"

\* "true" / "false": the value returned; "raise": an exception leaves build_image
build_image(dockerfile_exists, cv_exists, rebuild, query, built) ==
  IF ~dockerfile_exists THEN "false"
  ELSE IF ~cv_exists THEN "false"
  ELSE IF ~rebuild /\ query = "found" THEN "true"
  ELSE IF ~rebuild /\ query = "oserror" THEN "raise"
  ELSE IF built = "zero" THEN "true"
  ELSE IF built = "timeout" THEN on_build_timeout
  ELSE "false"

build_image_cmds_mut_no_precheck(dockerfile_exists, cv_exists, rebuild, query) ==
  IF rebuild THEN <<"build">>
  ELSE IF query \in {"found", "oserror"} THEN <<"query">>
  ELSE <<"query", "build">>

build_image_cmds_mut_query_on_rebuild(dockerfile_exists, cv_exists, rebuild, query) ==
  IF ~dockerfile_exists \/ ~cv_exists THEN <<>>
  ELSE IF query \in {"found", "oserror"} THEN <<"query">>
  ELSE <<"query", "build">>

\* the docker commands build_image issues, in order: the existence query of
\* lines 230-235 unless rebuild, the build of lines 260-279 unless the
\* function has returned or raised before
build_image_cmds(dockerfile_exists, cv_exists, rebuild, query) ==
  IF ~dockerfile_exists \/ ~cv_exists THEN <<>>
  ELSE IF rebuild THEN <<"build">>
  ELSE IF query \in {"found", "oserror"} THEN <<"query">>
  ELSE <<"query", "build">>

(***************************************************************************)
(* compile_cv                                                              *)
(***************************************************************************)
pdf_is_empty_mut_never(pdf_size) == FALSE

\* line 466
pdf_is_empty(pdf_size) == pdf_size = 0

\* quality failed and the build is stopped for it (lines 472-475)
quality_stops_mut_always(quality_ok, fail_on_warnings) == ~quality_ok

quality_stops(quality_ok, fail_on_warnings) == ~quality_ok /\ fail_on_warnings

\* the directory when subprocess.run(run_cmd) is over: a container that could
\* not be started wrote nothing
after_run(d, run, out) == IF run = "oserror" THEN d ELSE Written(d, out)

\* (success, stats) with the directory and the moved artifact the call leaves
CompileResult(success, stats, d, moved_to) ==
  [success |-> success, stats |-> stats, dir |-> d, moved_to |-> moved_to]

\* compile_cv(lang, output, verbose, fail_on_warnings, show_warnings) under
\* CI_MODE = ci, in directory d; run is the outcome of `docker run`, out what
\* the container wrote, mv the outcome of shutil.move ("ok" / "oserror").
\* Every exception raised after the try (line 441) is caught at 530-542.
compile_cv(lang, output, verbose, fail_on_warnings, show_warnings, ci, d, run, out, mv) ==
  LET d1 == after_run(d, run, out)
      pdf_path == resume_pdf(lang)
      output_path == IF output # "" THEN output ELSE pdf_path
      diag == check_latex_quality(d1, FALSE, verbose, ci)
      q == check_latex_quality(d1, fail_on_warnings, show_warnings, ci)
  IN  IF run \in {"timeout", "oserror"}
        THEN CompileResult(FALSE, None, d1, "")
      ELSE IF run = "nonzero"
        THEN CompileResult(FALSE, diag.stats, d1, "")
      ELSE IF "resume.pdf" \notin d1.files
        THEN CompileResult(FALSE, diag.stats, d1, "")
      ELSE IF pdf_is_empty(d1.pdf_size)
        THEN CompileResult(FALSE, None, d1, "")
      ELSE IF q.raised
        THEN CompileResult(FALSE, None, d1, "")
      ELSE IF quality_stops(q.ok, fail_on_warnings)
        THEN CompileResult(FALSE, q.stats, d1, "")
      ELSE IF output # "" /\ output_path # pdf_path
        THEN (IF mv = "oserror"
                THEN CompileResult(FALSE, None, d1, "")
                ELSE CompileResult(TRUE, q.stats,
                                   Dir(d1.exists, d1.files \ {"resume.pdf"}, 0, d1.log_lines),
                                   output_path))
      ELSE CompileResult(TRUE, q.stats, d1, "")

(***************************************************************************)
(* Configurations and inputs                                               *)
(***************************************************************************)
Config(all_languages, language, parallel, ci, fail_on_warnings, clean, rebuild, move_to_root, output, verbose, show_warnings) ==
  [all_languages |-> all_languages, language |-> language, parallel |-> parallel,
   ci |-> ci, fail_on_warnings |-> fail_on_warnings, clean |-> clean,
   rebuild |-> rebuild, move_to_root |-> move_to_root, output |-> output,
   verbose |-> verbose, show_warnings |-> show_warnings]

\* --move-to-root with every --output behaves as --move-to-root alone
\* (lines 595-596), so it is drawn with output None only
OutputModes == {<<TRUE, "">>} \cup {<<FALSE, o>> : o \in Outputs}

\* build --all: language keeps its default; --verbose and --show-warnings
\* keep their default False
AllConfigs ==
  {Config(TRUE, "en", par, ci, strict, clean, rebuild, om[1], om[2], FALSE, FALSE) :
     par \in BOOLEAN, ci \in BOOLEAN, strict \in BOOLEAN, clean \in BOOLEAN,
     rebuild \in BOOLEAN, om \in OutputModes}

\* build --language <l>: "de" is a language the script does not know
SingleConfigs ==
  {Config(FALSE, l, FALSE, ci, strict, clean, rebuild, om[1], om[2], v, sw) :
     l \in {"en", "fr", "de"}, ci \in BOOLEAN, strict \in BOOLEAN, clean \in BOOLEAN,
     rebuild \in BOOLEAN, om \in OutputModes, v \in BOOLEAN, sw \in BOOLEAN}

\* a checkout before any build: the directory is missing, or holds resume.tex
\* or not, and no build product yet
SourceDirs == {NoDir, Dir(TRUE, {}, 0, <<>>), Dir(TRUE, {"resume.tex"}, 0, <<>>)}

AuxOutputs == {{}, {"resume.aux", "resume.out"}}

\* everything a run of the container may leave, logs up to n lines
ToolOutputs(n) ==
  {ToolOutput(pdf, FALSE, <<>>, aux) : pdf \in {"none", "empty", "full"}, aux \in AuxOutputs}
  \cup {ToolOutput(pdf, TRUE, ll, aux) :
          pdf \in {"none", "empty", "full"}, ll \in LogsUpTo(n), aux \in AuxOutputs}

\* the results of the toolchain drawn in the runs of build --all: a clean
\* build, a build with an overfull box, a build with an error (and a PDF all
\* the same), an empty PDF, and no PDF with an error in the log
TypicalOutputs ==
  {ToolOutput("full", TRUE, <<"pages">>, {"resume.aux", "resume.out"}),
   ToolOutput("full", TRUE, <<"over">>, {"resume.aux", "resume.out"}),
   ToolOutput("full", TRUE, <<"err">>, {}),
   ToolOutput("empty", TRUE, <<"text">>, {}),
   ToolOutput("none", TRUE, <<"err">>, {"resume.aux", "resume.out"})}

(***************************************************************************)
(* State                                                                   *)
(***************************************************************************)
\* build_single_cv of one variant: where it is (idle, validate, image,
\* compile, cleanup, done, raised), what it returned, and a record of what
\* happened in it: the outcome of `docker run`, the artifact the run left
\* ("none", "empty", "full"), the statistics of the log the run left, and
\* the outcome of shutil.move ("" when shutil.move was not called), the
\* outcome of `docker build` ("" when it was not invoked), and the stages
\* entered and the docker commands issued, in order
Job(at, success, stats, run, artifact, parsed, mv, built, trace) ==
  [pc |-> at, success |-> success, stats |-> stats, run |-> run,
   artifact |-> artifact, parsed |-> parsed, mv |-> mv, built |-> built,
   trace |-> trace]

IdleJob == Job("idle", FALSE, None, "", "", None, "", "", <<>>)

\* a call of the function-level runs: the function, whether it raised, the
\* pair it returned (check_latex_quality) and the directory before the call
Call(fn, raised, ok, stats, before) ==
  [fn |-> fn, raised |-> raised, ok |-> ok, stats |-> stats, before |-> before]

NoCall == Call("", FALSE, FALSE, None, NoDir)

InitCommon ==
  /\ pc = "start"
  /\ job = [l \in Langs |-> IdleJob]
  /\ dockerfile \in BOOLEAN
  /\ outs = [p \in OutPaths |-> ""]
  /\ results = <<>>
  /\ stats_dict = <<>>
  /\ writes = [l \in Langs |-> 0]
  /\ exit_code = 0
  /\ todo = <<>>
  /\ pending = {}
  /\ call = NoCall

\* build --all
Init ==
  /\ cfg \in AllConfigs
  /\ dir \in [Langs -> SourceDirs]
  /\ InitCommon

\* build --language <l>: the other variant's directory is a plain checkout
InitSingle ==
  /\ cfg \in SingleConfigs
  /\ dir \in {d \in [Langs -> SourceDirs] :
                \A l \in Langs : l # cfg.language => d[l] = Dir(TRUE, {"resume.tex"}, 0, <<>>)}
  /\ InitCommon

(***************************************************************************)
(* build_single_cv, stage by stage                                         *)
(***************************************************************************)
Returned(j, success, stats) == [j EXCEPT !.pc = "done", !.success = success, !.stats = stats]

\* outcomes of `docker --version` (check=True, timeout=10)
VersionOutcomes == {"zero", "nonzero", "timeout", "not_found"}

\* outcomes of `docker info` (check=False, timeout=10): exit zero, non-zero
\* with "Client:" or "Server:" in its output, non-zero without, timeout.
\* `docker info` exits non-zero when it cannot reach the daemon; a CLI that
\* prints its "Client:" section before it tries has it in stdout then.
InfoOutcomes == {"zero", "nonzero_with_output", "nonzero_silent", "timeout"}

\* lines 176-202
check_docker(version, info) ==
  /\ version = "zero"
  /\ info \in {"zero", "nonzero_with_output"}

\* the call of check_docker: the outcomes of its two commands and its result
Probe(version, info) ==
  [fn |-> "check_docker", raised |-> FALSE, ok |-> check_docker(version, info),
   stats |-> None, before |-> NoDir, version |-> version, info |-> info]

\* the probe met a daemon that did not answer `docker info`
DaemonDown == call.fn = "check_docker" /\ call.info \in {"nonzero_with_output", "nonzero_silent"}

\* without a daemon `docker images` and `docker build` exit non-zero
QueriesNow == IF DaemonDown THEN {"called_process_error"} ELSE QueryOutcomes

BuildsNow == IF DaemonDown THEN {"nonzero"} ELSE RunOutcomes

\* lines 574-587 (a variant of Langs is a valid language)
JobValidate(l) ==
  /\ job[l].pc = "validate"
  /\ job' = [job EXCEPT ![l] =
       LET j == [@ EXCEPT !.trace = Append(@, "validate")]
       IN  IF dir[l].exists /\ "resume.tex" \in dir[l].files
             THEN [j EXCEPT !.pc = "image"]
             ELSE Returned(j, FALSE, None)]
  /\ UNCHANGED <<cfg, pc, dir, dockerfile, outs, results, stats_dict, writes, exit_code, todo, pending, call>>

\* lines 589-592 with build_image
JobImage(l) ==
  /\ job[l].pc = "image"
  /\ \E query \in QueriesNow, built \in BuildsNow :
       LET r == build_image(dockerfile, dir[l].exists, cfg.rebuild, query, built)
           cmds == build_image_cmds(dockerfile, dir[l].exists, cfg.rebuild, query)
           j == [job[l] EXCEPT
                   !.trace = Append(@, "image") \o cmds,
                   !.built = IF cmds # <<>> /\ cmds[Len(cmds)] = "build" THEN built ELSE ""]
       IN  job' = [job EXCEPT ![l] =
             IF r = "raise" THEN [j EXCEPT !.pc = "raised"]
             ELSE IF r = "true" THEN [j EXCEPT !.pc = "compile"]
             ELSE Returned(j, FALSE, None)]
  /\ UNCHANGED <<cfg, pc, dir, dockerfile, outs, results, stats_dict, writes, exit_code, todo, pending, call>>

artifact_of(d) ==
  IF "resume.pdf" \notin d.files THEN "none"
  ELSE IF d.pdf_size = 0 THEN "empty" ELSE "full"

\* lines 594-606 with compile_cv; the container's writes are drawn from `outputs`
runs_cleanup_mut_flag_only(success, clean) == clean

\* lines 604-610 of build_single_cv: cleanup(language) is reached when
\* compile_cv succeeded and clean is set
runs_cleanup(success, clean) == success /\ clean

JobCompile(l, outputs) ==
  /\ job[l].pc = "compile"
  /\ \E run \in RunOutcomes, out \in outputs :
       LET target == lang_output(l, cfg.move_to_root, cfg.output)
           try == compile_cv(l, target, cfg.verbose, cfg.fail_on_warnings,
                             cfg.show_warnings, cfg.ci, dir[l], run, out, "ok")
       IN  \E mv \in (IF try.moved_to # "" THEN {"ok", "oserror"} ELSE {""}) :
             LET r == compile_cv(l, target, cfg.verbose, cfg.fail_on_warnings,
                                 cfg.show_warnings, cfg.ci, dir[l], run, out, mv)
                 seen == [job[l] EXCEPT
                            !.run = run,
                            !.artifact = artifact_of(after_run(dir[l], run, out)),
                            !.parsed = parse_latex_log("resume.log" \in r.dir.files,
                                                       r.dir.log_lines),
                            !.mv = mv,
                            !.trace = @ \o <<"compile", "run">>]
             IN  /\ job' = [job EXCEPT ![l] =
                       IF runs_cleanup(r.success, cfg.clean)
                         THEN [seen EXCEPT !.pc = "cleanup", !.success = r.success, !.stats = r.stats]
                         ELSE Returned(seen, r.success, r.stats)]
                 /\ dir' = [dir EXCEPT ![l] = r.dir]
                 /\ outs' = IF r.moved_to # "" THEN [outs EXCEPT ![r.moved_to] = l] ELSE outs
  /\ UNCHANGED <<cfg, pc, dockerfile, results, stats_dict, writes, exit_code, todo, pending, call>>

\* lines 608-612 with cleanup; `failing` is the file whose unlink raises
JobCleanup(l) ==
  /\ job[l].pc = "cleanup"
  /\ \E failing \in aux_files(dir[l]) \cup {""} :
       LET r == cleanup(dir[l], failing)
       IN  /\ dir' = [dir EXCEPT ![l] = r.dir]
           /\ job' = [job EXCEPT ![l].pc = IF r.raised THEN "raised" ELSE "done",
                                  ![l].trace = Append(@, "cleanup")]
  /\ UNCHANGED <<cfg, pc, dockerfile, outs, results, stats_dict, writes, exit_code, todo, pending, call>>

(***************************************************************************)
(* build --all                                                             *)
(***************************************************************************)
\* d[k] = v on a dict
Put(d, k, v) == [x \in DOMAIN d \cup {k} |-> IF x = k THEN v ELSE d[x]]

\* lines 702-722
CheckDocker ==
  /\ pc = "start"
  /\ cfg.all_languages
  /\ \E version \in VersionOutcomes, info \in InfoOutcomes :
       /\ call' = Probe(version, info)
       /\ IF check_docker(version, info)
            THEN /\ pc' = IF cfg.parallel THEN "pool" ELSE "loop"
                 /\ todo' = IF cfg.parallel THEN todo ELSE LangOrder
                 /\ exit_code' = exit_code
            ELSE /\ pc' = "exit"
                 /\ exit_code' = 1
                 /\ todo' = todo
  /\ UNCHANGED <<cfg, job, dir, dockerfile, outs, results, stats_dict, writes, pending>>

\* line 761: the call of build_single_cv for the next variant of the loop
SeqCall ==
  /\ pc = "loop"
  /\ todo # <<>>
  /\ job' = [job EXCEPT ![Head(todo)].pc = "validate"]
  /\ pc' = "call"
  /\ UNCHANGED <<cfg, dir, dockerfile, outs, results, stats_dict, writes, exit_code, todo, pending, call>>

\* lines 761-765: build_single_cv returned
SeqReturn ==
  /\ pc = "call"
  /\ job[Head(todo)].pc = "done"
  /\ results' = Put(results, Head(todo), job[Head(todo)].success)
  /\ stats_dict' = Put(stats_dict, Head(todo), job[Head(todo)].stats)
  /\ writes' = [writes EXCEPT ![Head(todo)] = @ + 1]
  /\ todo' = Tail(todo)
  /\ pc' = IF Tail(todo) = <<>> THEN "summary" ELSE "loop"
  /\ UNCHANGED <<cfg, job, dir, dockerfile, outs, exit_code, pending, call>>

\* line 761: build_single_cv raised; nothing in `build` catches it
SeqRaise ==
  /\ pc = "call"
  /\ job[Head(todo)].pc = "raised"
  /\ pc' = "crashed"
  /\ exit_code' = 1
  /\ UNCHANGED <<cfg, job, dir, dockerfile, outs, results, stats_dict, writes, todo, pending, call>>

\* lines 731-739: both jobs are submitted to a pool of two workers
ParSubmit ==
  /\ pc = "pool"
  /\ job' = [l \in Langs |-> [job[l] EXCEPT !.pc = "validate"]]
  /\ pending' = Langs
  /\ pc' = "as_completed"
  /\ UNCHANGED <<cfg, dir, dockerfile, outs, results, stats_dict, writes, exit_code, todo, call>>

except_success_mut_true == TRUE

\* line 751
except_success == FALSE

\* what is recorded for a finished future: lines 744-746, and 751-752 when
\* future.result() raises
collected(j) ==
  IF j.pc = "raised"
    THEN [success |-> except_success, stats |-> None]
    ELSE [success |-> j.success, stats |-> j.stats]

future_lang_mut_stale(l) == "en"

\* line 742: lang = futures[future], the variant the future was submitted for
future_lang(l) == l

\* lines 741-753: one iteration of the as_completed loop, for the future of
\* variant l
ParCollect(l) ==
  /\ pc = "as_completed"
  /\ l \in pending
  /\ job[l].pc \in {"done", "raised"}
  /\ pending' = pending \ {l}
  /\ results' = Put(results, future_lang(l), collected(job[l]).success)
  /\ stats_dict' = Put(stats_dict, future_lang(l), collected(job[l]).stats)
  /\ writes' = [writes EXCEPT ![future_lang(l)] = @ + 1]
  /\ UNCHANGED <<cfg, pc, job, dir, dockerfile, outs, exit_code, todo, call>>

as_completed_over_mut_first(futures) == futures # Langs

\* line 741: as_completed(futures) is exhausted when every future submitted
\* has been yielded
as_completed_over(futures) == futures = {}

\* line 753 to 767: the loop is over and the pool is shut down
ParJoin ==
  /\ pc = "as_completed"
  /\ as_completed_over(pending)
  /\ pc' = "summary"
  /\ UNCHANGED <<cfg, job, dir, dockerfile, outs, results, stats_dict, writes, exit_code, todo, pending, call>>

\* lines 769-819: the summary reads results[lang] for en and fr (a missing
\* key is a KeyError)
Summary ==
  /\ pc = "summary"
  /\ IF Langs \subseteq DOMAIN results
       THEN pc' = "final" /\ exit_code' = exit_code
       ELSE pc' = "crashed" /\ exit_code' = 1
  /\ UNCHANGED <<cfg, job, dir, dockerfile, outs, results, stats_dict, writes, todo, pending, call>>

all_mut_any(d) == \E k \in DOMAIN d : d[k]

\* line 822: all(results.values())
all(d) == \A k \in DOMAIN d : d[k]

\* lines 821-847
Final ==
  /\ pc = "final"
  /\ exit_code' = IF all(results) THEN 0 ELSE 1
  /\ pc' = "exit"
  /\ UNCHANGED <<cfg, job, dir, dockerfile, outs, results, stats_dict, writes, todo, pending, call>>

Next ==
  \/ CheckDocker
  \/ SeqCall
  \/ SeqReturn
  \/ SeqRaise
  \/ ParSubmit
  \/ \E l \in Langs : ParCollect(l)
  \/ ParJoin
  \/ Summary
  \/ Final
  \/ \E l \in Langs : JobValidate(l)
  \/ \E l \in Langs : JobImage(l)
  \/ \E l \in Langs : JobCompile(l, TypicalOutputs)
  \/ \E l \in Langs : JobCleanup(l)

Spec == Init /\ [][Next]_vars

(***************************************************************************)
(* build --all with external commands that may never return by themselves. *)
(* `docker build` (timeout=1800) and `docker run` (timeout=600) are killed  *)
(* by subprocess.run when their time is over: their outcome is "timeout".   *)
(* The subprocess.run of `docker images -q` (lines 230-235) has no timeout  *)
(* argument: it returns when the command does.                              *)
(***************************************************************************)
\* lines 230-235: the image query is issued and never returns
JobImageBlocked(l) ==
  /\ job[l].pc = "image"
  /\ build_image_cmds(dockerfile, dir[l].exists, cfg.rebuild, "absent") # <<>>
  /\ ~cfg.rebuild
  /\ job' = [job EXCEPT ![l].pc = "query_blocked",
                         ![l].trace = @ \o <<"image", "query">>]
  /\ UNCHANGED <<cfg, pc, dir, dockerfile, outs, results, stats_dict, writes, exit_code, todo, pending, call>>

\* CI mode, no strict quality, default output location
LiveConfigs ==
  {c \in AllConfigs : c.ci /\ ~c.fail_on_warnings /\ ~c.move_to_root /\ c.output = ""}

InitLive ==
  /\ cfg \in LiveConfigs
  /\ dir \in [Langs -> SourceDirs]
  /\ InitCommon

NextLive ==
  \/ Next
  \/ \E l \in Langs : JobImageBlocked(l)

\* every step that can be taken is taken in the end: the main thread and the
\* two workers are scheduled, and a command that returns is waited for
SpecLive == InitLive /\ [][NextLive]_vars /\ WF_vars(NextLive)

(***************************************************************************)
(* build --language <l>                                                    *)
(***************************************************************************)
\* lines 849-853
SingleStart ==
  /\ pc = "start"
  /\ ~cfg.all_languages
  /\ IF cfg.language \in Langs
       THEN pc' = "single_docker" /\ exit_code' = exit_code
       ELSE pc' = "exit" /\ exit_code' = 1
  /\ UNCHANGED <<cfg, job, dir, dockerfile, outs, results, stats_dict, writes, todo, pending, call>>

\* lines 874-887
SingleCheckDocker ==
  /\ pc = "single_docker"
  /\ \E version \in VersionOutcomes, info \in InfoOutcomes :
       /\ call' = Probe(version, info)
       /\ IF check_docker(version, info)
            THEN pc' = "single_precheck" /\ exit_code' = exit_code
            ELSE pc' = "exit" /\ exit_code' = 1
  /\ UNCHANGED <<cfg, job, dir, dockerfile, outs, results, stats_dict, writes, todo, pending>>

\* lines 889-897
SinglePrecheck ==
  /\ pc = "single_precheck"
  /\ IF dir[cfg.language].exists /\ "resume.tex" \in dir[cfg.language].files
       THEN pc' = "single_call" /\ exit_code' = exit_code
       ELSE pc' = "exit" /\ exit_code' = 1
  /\ UNCHANGED <<cfg, job, dir, dockerfile, outs, results, stats_dict, writes, todo, pending, call>>

\* line 901: the call
SingleCall ==
  /\ pc = "single_call"
  /\ job' = [job EXCEPT ![cfg.language].pc = "validate"]
  /\ pc' = "single_wait"
  /\ UNCHANGED <<cfg, dir, dockerfile, outs, results, stats_dict, writes, exit_code, todo, pending, call>>

\* lines 901-947: build_single_cv returned
SingleReturn ==
  /\ pc = "single_wait"
  /\ job[cfg.language].pc = "done"
  /\ pc' = "exit"
  /\ exit_code' = IF job[cfg.language].success THEN 0 ELSE 1
  /\ UNCHANGED <<cfg, job, dir, dockerfile, outs, results, stats_dict, writes, todo, pending, call>>

\* line 901: build_single_cv raised
SingleRaise ==
  /\ pc = "single_wait"
  /\ job[cfg.language].pc = "raised"
  /\ pc' = "crashed"
  /\ exit_code' = 1
  /\ UNCHANGED <<cfg, job, dir, dockerfile, outs, results, stats_dict, writes, todo, pending, call>>

NextSingle ==
  \/ SingleStart
  \/ SingleCheckDocker
  \/ SinglePrecheck
  \/ SingleCall
  \/ SingleReturn
  \/ SingleRaise
  \/ \E l \in Langs : JobValidate(l)
  \/ \E l \in Langs : JobImage(l)
  \/ \E l \in Langs : JobCompile(l, ToolOutputs(MaxLogLines))
  \/ \E l \in Langs : JobCleanup(l)

SpecSingle == InitSingle /\ [][NextSingle]_vars

(***************************************************************************)
(* Function-level runs: one call of check_latex_quality("en", ...) or of   *)
(* cleanup("en") on a directory of any content                             *)
(***************************************************************************)
AnyDirs ==
  {Dir(TRUE, files, size, lines) :
     files \in SUBSET FileNames, size \in {0, 1}, lines \in ParserLogsUpTo(MaxGateLogLines)}

\* CI_MODE, fail_on_warnings and show_warnings vary
GateConfigs ==
  {Config(FALSE, "en", FALSE, ci, strict, FALSE, FALSE, FALSE, "", FALSE, sw) :
     ci \in BOOLEAN, strict \in BOOLEAN, sw \in BOOLEAN}

InitUnit ==
  /\ cfg \in GateConfigs
  /\ \E d \in AnyDirs :
       dir = [l \in Langs |-> IF l = "en" THEN d ELSE Dir(TRUE, {"resume.tex"}, 0, <<>>)]
  /\ pc = "unit"
  /\ job = [l \in Langs |-> IdleJob]
  /\ dockerfile = TRUE
  /\ outs = [p \in OutPaths |-> ""]
  /\ results = <<>>
  /\ stats_dict = <<>>
  /\ writes = [l \in Langs |-> 0]
  /\ exit_code = 0
  /\ todo = <<>>
  /\ pending = {}
  /\ call = NoCall

UnitGate ==
  /\ pc = "unit"
  /\ LET r == check_latex_quality(dir["en"], cfg.fail_on_warnings, cfg.show_warnings, cfg.ci)
     IN  call' = Call("check_latex_quality", r.raised, r.ok, r.stats, dir["en"])
  /\ pc' = "returned"
  /\ UNCHANGED <<cfg, job, dir, dockerfile, outs, results, stats_dict, writes, exit_code, todo, pending>>

parse_effect_mut_consumes(d) == Dir(d.exists, d.files, d.pdf_size, <<>>)

\* lines 66-68: the log is opened with mode 'r', read and closed; nothing
\* else of the directory is touched
parse_effect(d) == d

\* the n-th call of parse_latex_log in a row: what it returned, what the
\* first call returned, and the directory before the first call
ParseCall(n, stats, first, before) ==
  [fn |-> "parse_latex_log", raised |-> FALSE, ok |-> TRUE, stats |-> stats,
   before |-> before, n |-> n, first |-> first]

\* parse_latex_log(cv-en/resume.log), called again and again
UnitParse ==
  /\ pc \in {"unit", "parsed"}
  /\ LET n == IF pc = "unit" THEN 0 ELSE call.n
         stats == parse_latex_log("resume.log" \in dir["en"].files, dir["en"].log_lines)
     IN  /\ n < MaxParseCalls
         /\ call' = ParseCall(n + 1, stats,
                              IF n = 0 THEN stats ELSE call.first,
                              IF n = 0 THEN dir["en"] ELSE call.before)
  /\ dir' = [dir EXCEPT !["en"] = parse_effect(@)]
  /\ pc' = "parsed"
  /\ UNCHANGED <<cfg, job, dockerfile, outs, results, stats_dict, writes, exit_code, todo, pending>>

UnitCleanup ==
  /\ pc = "unit"
  /\ \E failing \in aux_files(dir["en"]) \cup {""} :
       LET r == cleanup(dir["en"], failing)
       IN  /\ dir' = [dir EXCEPT !["en"] = r.dir]
           /\ call' = Call("cleanup", r.raised, FALSE, None, dir["en"])
  /\ pc' = "returned"
  /\ UNCHANGED <<cfg, job, dockerfile, outs, results, stats_dict, writes, exit_code, todo, pending>>

NextUnit ==
  \/ UnitGate
  \/ UnitCleanup
  \/ UnitParse

SpecUnit == InitUnit /\ [][NextUnit]_vars

(***************************************************************************)
(* Function-level runs of build_image("en", rebuild, verbose)              *)
(***************************************************************************)
\* rebuild, verbose and CI_MODE vary
ImageConfigs ==
  {Config(FALSE, "en", FALSE, ci, FALSE, FALSE, rebuild, FALSE, "", v, FALSE) :
     ci \in BOOLEAN, rebuild \in BOOLEAN, v \in BOOLEAN}

InitImage ==
  /\ cfg \in ImageConfigs
  /\ \E d \in SourceDirs :
       dir = [l \in Langs |-> IF l = "en" THEN d ELSE Dir(TRUE, {"resume.tex"}, 0, <<>>)]
  /\ pc = "unit"
  /\ job = [l \in Langs |-> IdleJob]
  /\ dockerfile \in BOOLEAN
  /\ outs = [p \in OutPaths |-> ""]
  /\ results = <<>>
  /\ stats_dict = <<>>
  /\ writes = [l \in Langs |-> 0]
  /\ exit_code = 0
  /\ todo = <<>>
  /\ pending = {}
  /\ call = NoCall

\* one call of build_image: its result, the commands it issued and the
\* outcome of each command issued ("" for a command that was not)
ImageCall(result, cmds, query, built, before) ==
  [fn |-> "build_image", raised |-> result = "raise", ok |-> result = "true",
   stats |-> None, before |-> before, cmds |-> cmds,
   query |-> IF \E i \in 1..Len(cmds) : cmds[i] = "query" THEN query ELSE "",
   built |-> IF \E i \in 1..Len(cmds) : cmds[i] = "build" THEN built ELSE ""]

UnitImage ==
  /\ pc = "unit"
  /\ \E query \in QueryOutcomes, built \in RunOutcomes :
       call' = ImageCall(build_image(dockerfile, dir["en"].exists, cfg.rebuild, query, built),
                         build_image_cmds(dockerfile, dir["en"].exists, cfg.rebuild, query),
                         query, built, dir["en"])
  /\ pc' = "returned"
  /\ UNCHANGED <<cfg, job, dir, dockerfile, outs, results, stats_dict, writes, exit_code, todo, pending>>

NextImage == UnitImage

SpecImage == InitImage /\ [][NextImage]_vars

(***************************************************************************)
(* Claims                                                                  *)
(***************************************************************************)
\* the variants whose call of build_single_cv has returned
ReturnedJobs == {l \in Langs : job[l].pc = "done"}

NoDiagnostics(stats) ==
  /\ stats.errors = <<>>
  /\ stats.warnings = <<>>
  /\ stats.overfull_boxes = <<>>
  /\ stats.underfull_boxes = <<>>
  /\ ~stats.has_fatal_error

QualityCheckRaises(stats) ==
  /\ ~cfg.ci
  /\ stats.overfull_boxes # <<>>
  /\ stats.errors = <<>>
  /\ ~stats.has_fatal_error

C2_ErrorsNeverSucceed ==
  \A l \in ReturnedJobs :
    (job[l].parsed.errors # <<>> \/ job[l].parsed.has_fatal_error) => ~job[l].success

\* the main thread is past the jobs: at the summary or after it, or crashed
PastJobs == pc \in {"summary", "final", "crashed"}

\* C3: both modes record the same JobResult for the same outcome of a job,
\* an exception included: once the main thread is past the jobs, every
\* variant whose job returned or raised has the JobResult that outcome
\* gives at the dispatch boundary of the parallel mode, in either mode.
C3_SameJobResultInBothModes ==
  PastJobs =>
    \A l \in Langs :
      job[l].pc \in {"done", "raised"} =>
        /\ l \in DOMAIN results
        /\ results[l] = collected(job[l]).success
        /\ l \in DOMAIN stats_dict
        /\ stats_dict[l] = collected(job[l]).stats

\* C4: in sequential mode every variant's job is run, en before fr, and gets
\* a JobResult, whatever happened to the earlier job.
C4_SequentialRunsEveryVariant ==
  ~cfg.parallel =>
    /\ job["fr"].pc # "idle" => job["en"].pc \in {"done", "raised"}
    /\ PastJobs => \A l \in Langs : job[l].pc # "idle" /\ l \in DOMAIN results

\* C5: in parallel mode a job that raised is recorded as (False, None) once
\* its future has been collected, a job that returned is recorded with what
\* it returned, the main thread never crashes and is never stuck before the
\* exit, and it is past the pool only when both jobs are over.
C5_ParallelCatchesWorkerException ==
  cfg.parallel =>
    /\ \A l \in Langs :
         (/\ job[l].pc = "raised"
          /\ (pc = "as_completed" /\ l \notin pending) \/ pc \in {"summary", "final", "exit"})
         => /\ l \in DOMAIN results /\ results[l] = FALSE
            /\ l \in DOMAIN stats_dict /\ stats_dict[l] = None
    /\ \A l \in Langs :
         (l \in DOMAIN results /\ job[l].pc = "done")
         => /\ results[l] = job[l].success
            /\ stats_dict[l] = job[l].stats
    /\ pc # "crashed"
    /\ pc \in {"summary", "final"} => \A l \in Langs : job[l].pc \in {"done", "raised"}
    /\ pc = "exit" \/ ENABLED Next

\* en raised, fr ran to a successful end, and the summary is reached
C5_Witness ==
  /\ cfg.parallel
  /\ pc = "summary"
  /\ job["en"].pc = "raised"
  /\ job["fr"].pc = "done"
  /\ job["fr"].success
  /\ results["fr"]

\* C6: at the summary the result map holds one JobResult for en and one for
\* fr and nothing else, each written exactly once; no entry is ever written
\* twice.
C6_OneResultPerVariant ==
  /\ \A l \in Langs : writes[l] <= 1
  /\ DOMAIN results \subseteq Langs
  /\ pc \in {"summary", "final"} =>
       /\ DOMAIN results = Langs
       /\ DOMAIN stats_dict = Langs
       /\ \A l \in Langs : writes[l] = 1

\* the summary of a parallel run is reached with both entries written, en
\* having raised and fr having failed
C6_Witness ==
  /\ pc = "summary"
  /\ cfg.parallel
  /\ DOMAIN results = Langs
  /\ job["en"].pc = "raised"
  /\ ~job["fr"].success

AuxSuffixes == {".aux", ".log", ".out", ".bbl", ".blg", ".fdb_latexmk", ".fls"}

CleanupCalled == call.fn = "cleanup"

\* C7, as stated: cleanup removes only files with an auxiliary extension,
\* never resume.pdf, never resume.log, and without an auxiliary file it
\* changes nothing and raises nothing.
C7_CleanupKeepsArtifactAndLog ==
  CleanupCalled =>
    /\ \A f \in call.before.files \ dir["en"].files : Suffix(f) \in AuxSuffixes
    /\ "resume.pdf" \in call.before.files => "resume.pdf" \in dir["en"].files
    /\ "resume.log" \in call.before.files => "resume.log" \in dir["en"].files
    /\ (\A f \in call.before.files : Suffix(f) \notin AuxSuffixes)
         => dir["en"] = call.before /\ ~call.raised

\* C7, amended: cleanup removes only files of the variant's directory whose
\* extension is in the auxiliary set, which holds .log: it never removes
\* resume.pdf nor changes it, it removes resume.log whenever it returns, it
\* leaves the other variant's directory alone, and when no file has an
\* auxiliary extension it changes nothing and raises nothing.
C7_CleanupKeepsArtifactRemovesLog ==
  CleanupCalled =>
    /\ \A f \in call.before.files \ dir["en"].files : Suffix(f) \in AuxSuffixes
    /\ dir["en"].files \subseteq call.before.files
    /\ "resume.pdf" \in call.before.files =>
         "resume.pdf" \in dir["en"].files /\ dir["en"].pdf_size = call.before.pdf_size
    /\ ~call.raised => \A f \in dir["en"].files : Suffix(f) \notin AuxSuffixes
    /\ dir["fr"] = Dir(TRUE, {"resume.tex"}, 0, <<>>)
    /\ (\A f \in call.before.files : Suffix(f) \notin AuxSuffixes)
         => dir["en"] = call.before /\ ~call.raised

\* cleanup returned in a directory that held the artifact, the log and an
\* auxiliary file
C7_Witness ==
  /\ CleanupCalled
  /\ ~call.raised
  /\ {"resume.pdf", "resume.log", "resume.aux"} \subseteq call.before.files
  /\ call.before.pdf_size = 1
  /\ "resume.pdf" \in dir["en"].files

GateCalled == call.fn = "check_latex_quality"

\* the statistics of the log the gate was called on
GateStats == parse_latex_log("resume.log" \in call.before.files, call.before.log_lines)

\* C8: with strict=false the gate never raises and passes if and only if
\* there is no error and no fatal-error flag, whatever the numbers of
\* warnings, overfull and underfull boxes and whatever the output mode.
C8_NonStrictGate ==
  (GateCalled /\ ~cfg.fail_on_warnings) =>
    /\ ~call.raised
    /\ call.ok <=> (GateStats.errors = <<>> /\ ~GateStats.has_fatal_error)

\* C9: with strict=true the gate returns pass=true if and only if there is
\* no error, no fatal-error flag, and warnings + overfull + underfull = 0.
C9_StrictGate ==
  (GateCalled /\ cfg.fail_on_warnings) =>
    ((~call.raised /\ call.ok) <=>
       /\ GateStats.errors = <<>>
       /\ ~GateStats.has_fatal_error
       /\ Len(GateStats.warnings) + Len(GateStats.overfull_boxes)
            + Len(GateStats.underfull_boxes) = 0)

\* the strict gate returned False for a log whose only diagnostics are
\* underfull boxes
C9_Witness ==
  /\ GateCalled
  /\ cfg.fail_on_warnings
  /\ ~call.raised
  /\ ~call.ok
  /\ GateStats.underfull_boxes # <<>>
  /\ GateStats.warnings = <<>>
  /\ GateStats.overfull_boxes = <<>>
  /\ GateStats.errors = <<>>
  /\ ~GateStats.has_fatal_error

\* C10: a container run that exits zero and leaves resume.pdf with size 0
\* ends the job as failed, without statistics; the failure is what `build`
\* records for the variant, and `build` exits non-zero.
C10_EmptyArtifactFails ==
  \A l \in Langs :
    (job[l].run = "zero" /\ job[l].artifact = "empty") =>
      /\ job[l].pc = "done"
      /\ ~job[l].success
      /\ job[l].stats = None
      /\ l \in DOMAIN results => ~results[l]
      /\ pc = "exit" => exit_code = 1

\* build --all has exited after a job of it met an empty artifact
C10_Witness ==
  /\ pc = "exit"
  /\ \E l \in Langs :
       /\ job[l].run = "zero"
       /\ job[l].artifact = "empty"
       /\ l \in DOMAIN results
       /\ ~results[l]

\* build has ended: it returned, called typer.Exit or died of an exception
Ended == pc \in {"exit", "crashed"}

\* C11: a run of build --all ends with a non-zero exit status whenever the
\* JobResult of en or fr is a failure, and with status zero when both jobs
\* returned success.
C11_ExitStatusReflectsFailure ==
  Ended =>
    /\ (\E l \in DOMAIN results : ~results[l]) => exit_code # 0
    /\ (\E l \in Langs : job[l].pc = "done" /\ ~job[l].success) => exit_code # 0
    /\ (\A l \in Langs : job[l].pc = "done" /\ job[l].success) => exit_code = 0
    /\ exit_code = 0 => DOMAIN results = Langs /\ \A l \in Langs : results[l]

\* a run ended with status 1 after en succeeded and fr failed
C11_Witness ==
  /\ pc = "exit"
  /\ exit_code = 1
  /\ DOMAIN results = Langs
  /\ results["en"]
  /\ ~results["fr"]

\* the container-run stage of the job ended in a compile failure: non-zero
\* exit, timeout, or zero exit with a missing or an empty artifact
CompileFailure(j) ==
  \/ j.run \in {"nonzero", "timeout"}
  \/ j.run = "zero" /\ j.artifact \in {"none", "empty"}

\* C12: when the container-run stage of a job ended in a compile failure and
\* resume.log exists, the failed JobResult carries the statistics parsed
\* from that log.
C12_CompileFailureCarriesLogStatistics ==
  \A l \in ReturnedJobs :
    (CompileFailure(job[l]) /\ "resume.log" \in dir[l].files) =>
      /\ ~job[l].success
      /\ job[l].stats = parse_latex_log(TRUE, dir[l].log_lines)

\* the stages and commands of a job's trace that come after its first x
After(trace, x) ==
  LET i == CHOOSE k \in 1..Len(trace) : trace[k] = x /\ \A m \in 1..(k - 1) : trace[m] # x
  IN  SubSeq(trace, i + 1, Len(trace))

Other(l) == CHOOSE m \in Langs : m # l

\* C13: a job whose image build or container run exceeded its timeout
\* returns a failed JobResult with nothing run after the command that timed
\* out; the failure is what is recorded for the variant, the other variant's
\* job is run all the same, and what is recorded for the other variant is
\* the outcome of its own job, in both modes.
C13_TimeoutFailsOneVariantOnly ==
  \A l \in Langs :
    (job[l].built = "timeout" \/ job[l].run = "timeout") =>
      /\ job[l].pc = "done"
      /\ ~job[l].success
      /\ job[l].stats = None
      /\ job[l].built = "timeout" => After(job[l].trace, "build") = <<>>
      /\ job[l].run = "timeout" => After(job[l].trace, "run") = <<>>
      /\ l \in DOMAIN results => ~results[l] /\ stats_dict[l] = None
      /\ (pc \in {"summary", "final", "exit"} \/ (pc = "crashed" /\ l = "en"))
           => job[Other(l)].pc \in {"done", "raised"}
      /\ pc \in {"summary", "final", "exit"} =>
           /\ results[Other(l)] = collected(job[Other(l)]).success
           /\ stats_dict[Other(l)] = collected(job[Other(l)]).stats

\* a sequential run has ended in which the image build of en timed out and
\* fr was built with success
C13_Witness ==
  /\ pc = "exit"
  /\ ~cfg.parallel
  /\ job["en"].built = "timeout"
  /\ job["fr"].pc = "done"
  /\ job["fr"].success
  /\ results["fr"]
  /\ ~results["en"]

DockerCommands == {"query", "build", "run"}

\* the docker commands a job issued, in order
Issued(j) == SelectSeq(j.trace, LAMBDA x : x \in DockerCommands)

\* the variants the command was asked to build
Requested == IF cfg.all_languages THEN Langs ELSE {cfg.language}

\* C14: when the requested variant is not a valid one, or its directory, its
\* resume.tex or Dockerfile.cv is absent, no image query, image build or
\* container run is ever issued for it, its job never succeeds, and the
\* command ends with a non-zero status.
C14_FailsFastWithoutRuntimeCommand ==
  /\ Requested \cap Langs = {} =>
        /\ \A l \in Langs : job[l].pc = "idle"
        /\ Ended => exit_code = 1
  /\ \A l \in Requested \cap Langs :
        (~dir[l].exists \/ "resume.tex" \notin dir[l].files \/ ~dockerfile) =>
          /\ Issued(job[l]) = <<>>
          /\ job[l].pc \in {"idle", "validate", "image", "done"}
          /\ ~job[l].success
          /\ Ended => exit_code = 1

\* build --language has ended after the job returned a failure for a missing
\* Dockerfile.cv, issuing no docker command
C14_Witness ==
  /\ ~cfg.all_languages
  /\ pc = "exit"
  /\ cfg.language \in Langs
  /\ ~dockerfile
  /\ job[cfg.language].pc = "done"
  /\ job[cfg.language].trace = <<"validate", "image">>
  /\ exit_code = 1

\* the availability probe failed: `docker --version` did not exit zero
\* (runtime missing, time-out, error) or `docker info` did not (daemon not
\* answering, time-out)
ProbeFailed == call.fn = "check_docker" /\ (call.version # "zero" \/ call.info # "zero")

\* C15: when the availability probe fails, build --all ends at once with a
\* non-zero status: no job is started, so nothing is validated, queried,
\* built or run for any variant.
C15_ProbeFailureAbortsBeforeJobs ==
  (cfg.all_languages /\ ProbeFailed) =>
    /\ pc = "exit"
    /\ exit_code # 0
    /\ \A l \in Langs : job[l] = IdleJob
    /\ results = <<>>

ParseCalled == call.fn = "parse_latex_log"

C17_NoLogOrNoMarkerGivesEmptyRecord ==
  ParseCalled =>
    (("resume.log" \notin call.before.files
        \/ \A i \in 1..Len(call.before.log_lines) : call.before.log_lines[i] = "text")
      => /\ ~call.raised
         /\ call.stats = LaTeXLogStats(<<>>, <<>>, <<>>, <<>>, 0, FALSE))

\* a log of two lines without a marker was parsed
C17_Witness ==
  /\ ParseCalled
  /\ "resume.log" \in call.before.files
  /\ call.before.log_lines = <<"text", "text">>
  /\ call.stats.some
  /\ call.stats.pages = 0

\* C18: every job that is started ends, with a JobResult or an exception,
\* and build --all, once it has started the jobs, gets past them (to the
\* summary, or out of the loop by a job's exception), also when an external
\* command never returns by itself.
C18_EveryJobEndsUnderTimeouts ==
  /\ \A l \in Langs : (job[l].pc = "validate") ~> (job[l].pc \in {"done", "raised"})
  /\ (pc \in {"loop", "pool"}) ~> PastJobs

\* the stages of build_single_cv and the docker commands they issue, in the
\* order of the code
Pipeline == <<"validate", "image", "query", "build", "compile", "run", "cleanup">>

Pos(x) == CHOOSE i \in 1..Len(Pipeline) : Pipeline[i] = x

Has(t, x) == \E i \in 1..Len(t) : t[i] = x

\* C19: the stages of a job are entered in the order validate, image,
\* compile (run, artifact, log and gate), cleanup, each at most once and
\* none without the one before it; the container is run only after the
\* image was found or built with exit zero; cleanup is run only for a job
\* that succeeded; a job that returned a failure stopped at the stage that
\* failed, and an empty artifact is not followed by the quality gate.
C19_StagesInOrderWithEarlyExit ==
  \A l \in Langs :
    LET j == job[l]
        t == j.trace
    IN  /\ \A a, b \in 1..Len(t) : a < b => Pos(t[a]) < Pos(t[b])
        /\ t # <<>> => t[1] = "validate"
        /\ (Has(t, "query") \/ Has(t, "build") \/ Has(t, "compile")) => Has(t, "image")
        /\ Has(t, "compile") <=> Has(t, "run")
        /\ Has(t, "cleanup") => Has(t, "run") /\ j.success /\ cfg.clean
        /\ Has(t, "run") => IF Has(t, "build") THEN j.built = "zero"
                                               ELSE Has(t, "query") /\ ~cfg.rebuild
        /\ j.pc \in {"idle", "validate"} <=> t = <<>>
        /\ j.pc = "image" => t = <<"validate">>
        /\ j.pc = "compile" => t[Len(t)] \in {"query", "build"}
        /\ j.pc = "cleanup" => t[Len(t)] = "run"
        /\ (j.pc = "done" /\ ~j.success) =>
             /\ ~Has(t, "cleanup")
             /\ j.built \notin {"", "zero"} => ~Has(t, "run")
             /\ (j.run = "zero" /\ j.artifact = "empty") => j.stats = None

\* a job went through every stage: the image was queried, not found and
\* built, the container was run, and cleanup was done
C19_Witness ==
  \E l \in Langs :
    /\ job[l].pc = "done"
    /\ job[l].success
    /\ job[l].trace = Pipeline

ImageCalled == call.fn = "build_image"

\* C20, as stated: without rebuild, an image the query finds makes
\* build_image return True without a build; with rebuild the query is never
\* issued and the build always is; whenever the build is issued, the result
\* is True if and only if the build exited zero within its timeout.
C20_EnsureImage ==
  ImageCalled =>
    /\ (~cfg.rebuild /\ call.query = "found") => call.ok /\ ~Has(call.cmds, "build")
    /\ cfg.rebuild => ~Has(call.cmds, "query") /\ Has(call.cmds, "build")
    /\ Has(call.cmds, "build") => (call.ok <=> call.built = "zero")

\* C20, amended: when Dockerfile.cv or the variant's directory is absent,
\* build_image returns False and issues no command.  Otherwise: without
\* rebuild, an image the query finds makes it return True without a build;
\* with rebuild the query is never issued and the build always is; whenever
\* the build is issued, the result is True if and only if the build exited
\* zero within its timeout.
C20_EnsureImageGivenPrerequisites ==
  ImageCalled =>
    /\ (~dockerfile \/ ~call.before.exists) =>
         call.cmds = <<>> /\ ~call.ok /\ ~call.raised
    /\ (dockerfile /\ call.before.exists) =>
         /\ (~cfg.rebuild /\ call.query = "found") => call.ok /\ call.cmds = <<"query">>
         /\ cfg.rebuild => call.cmds = <<"build">>
         /\ ~cfg.rebuild => call.cmds[1] = "query"
    /\ Has(call.cmds, "build") => (call.ok <=> call.built = "zero") /\ ~call.raised

\* a forced rebuild was issued and timed out
C20_Witness ==
  /\ ImageCalled
  /\ cfg.rebuild
  /\ call.cmds = <<"build">>
  /\ call.built = "timeout"
  /\ ~call.ok

\* the location the artifact of variant l is delivered to under cfg
Target(l) == lang_output(l, cfg.move_to_root, cfg.output)

\* C21: the two jobs of a run of build --all never deliver to the same
\* location: when both have moved their artifact, they have moved it to
\* different paths, and neither has moved it into the other's directory.
C21_JobsNeverShareOutputLocation ==
  cfg.all_languages =>
    \A l \in Langs :
      job[l].mv = "ok" =>
        /\ Target(l) # resume_pdf(Other(l))
        /\ job[Other(l)].mv = "ok" => Target(l) # Target(Other(l))

\* a container run that writes nothing
WritesNothing == ToolOutput("none", FALSE, <<>>, {})

\* what compile_cv returns for variant l under cfg when the container exits
\* zero on directory d and leaves it as it is
ZeroExitOn(l, d) ==
  compile_cv(l, Target(l), cfg.verbose, cfg.fail_on_warnings, cfg.show_warnings,
             cfg.ci, d, "zero", WritesNothing, "ok")

\* C22: a job whose zero-exit container run left an artifact of size 0
\* returns the JobResult (success flag and statistics) that the same job
\* returns when the run leaves the same directory without the artifact.
C22_EmptyArtifactAsMissingArtifact ==
  \A l \in ReturnedJobs :
    (job[l].run = "zero" /\ job[l].artifact = "empty") =>
      LET missing == ZeroExitOn(l, Dir(dir[l].exists, dir[l].files \ {"resume.pdf"},
                                       0, dir[l].log_lines))
      IN  /\ job[l].success = missing.success
          /\ job[l].stats = missing.stats

\* the summary has started: build is at line 769 or after it
SummaryStarted == pc \in {"summary", "final", "exit"} /\ results # <<>>

\* C23: in parallel mode the summary and the exit status (the reads of the
\* result map) come only when both workers are over and both JobResults
\* are recorded, and no step changes the result map once the summary has
\* started.
C23_SummaryAfterWorkersResultsFrozen ==
  /\ [](cfg.parallel /\ pc \in {"summary", "final"} =>
          /\ \A l \in Langs : job[l].pc \in {"done", "raised"}
          /\ pending = {}
          /\ DOMAIN results = Langs
          /\ DOMAIN stats_dict = Langs)
  /\ [][(cfg.parallel /\ SummaryStarted) =>
          /\ results' = results
          /\ stats_dict' = stats_dict
          /\ job' = job]_vars

\* a parallel run is at the final status with en recorded as a success and
\* fr as a failure
C23_Witness ==
  /\ cfg.parallel
  /\ pc = "final"
  /\ job["en"].pc = "done"
  /\ job["fr"].pc = "done"
  /\ results["en"]
  /\ ~results["fr"]

\* the call of parse_latex_log read a log and the parsing of it failed
ParseFailed ==
  /\ ParseCalled
  /\ "resume.log" \in call.before.files
  /\ int_raises(call.before.log_lines)

\* C24: when the parsing of the log fails, parse_latex_log raises nothing
\* and returns the record of empty lists, page count 0 and fatal-error flag
\* false, never a record that is filled in part.
C24_FailedParseGivesEmptyRecord ==
  ParseFailed =>
    /\ ~call.raised
    /\ call.stats = LaTeXLogStats(<<>>, <<>>, <<>>, <<>>, 0, FALSE)

\* the jobs whose compile_cv returned and whose directory cleanup has not
\* touched yet
Compiled ==
  {l \in Langs : job[l].pc \in {"done", "cleanup"} /\ job[l].run # ""
                   /\ ~Has(job[l].trace, "cleanup")}

\* the directory of variant l as the container run left it: the artifact is
\* back where shutil.move took it from
AsRunLeft(l) ==
  IF job[l].success /\ job[l].mv = "ok"
    THEN Dir(dir[l].exists, dir[l].files \cup {"resume.pdf"}, 1, dir[l].log_lines)
    ELSE dir[l]

\* compile_cv of variant l on the same run with other output flags
WithFlags(l, ci, verbose, show_warnings) ==
  compile_cv(l, Target(l), verbose, cfg.fail_on_warnings, show_warnings, ci,
             AsRunLeft(l), job[l].run, WritesNothing, job[l].mv)

\* C25: the JobResult of a job (success flag and statistics) is the one the
\* same run gives under every setting of CI mode, verbose and show-warnings.
C25_JobResultIndependentOfOutputFlags ==
  \A l \in Compiled :
    \A ci \in BOOLEAN, verbose \in BOOLEAN, show_warnings \in BOOLEAN :
      /\ WithFlags(l, ci, verbose, show_warnings).success = job[l].success
      /\ WithFlags(l, ci, verbose, show_warnings).stats = job[l].stats

\* the non-empty artifact of variant l is at path
ArtifactAt(l, path) ==
  IF path = resume_pdf(l)
    THEN "resume.pdf" \in dir[l].files /\ dir[l].pdf_size = 1
    ELSE path \in OutPaths /\ outs[path] = l

\* C26: the output path reported for a variant reported successful, in the
\* summary of build --all or in the success message of a single build, is a
\* path where the non-empty artifact of the variant is when its job is over.
C26_ReportedPathHoldsArtifact ==
  /\ (cfg.all_languages /\ pc \in {"final", "exit"} /\ Langs \subseteq DOMAIN results) =>
        \A l \in Langs :
          results[l] => ArtifactAt(l, summary_output_path(l, cfg.move_to_root))
  /\ (~cfg.all_languages /\ pc = "exit" /\ exit_code = 0) =>
        ArtifactAt(cfg.language, final_output(cfg.language, cfg.move_to_root, cfg.output))

\* the files a step takes out of the directory of variant l
Gone(l) == dir[l].files \ dir'[l].files

\* the artifact, when the step is the one that moves it to the output
\* location of variant l
Delivered(l) ==
  IF Target(l) \in OutPaths /\ job[l].pc = "compile" /\ job'[l].mv = "ok"
       /\ outs'[Target(l)] = l
    THEN {"resume.pdf"}
    ELSE {}

====
